---- MODULE Spec2Model ----
(***************************************************************************)
(* Beaver-triple secure multiplication: the coordinator                    *)
(* (src/coordinator.py, MPCCoordinator) and the parties (src/party.py,     *)
(* MPCParty).  The coordinator is one sequential thread whose steps are    *)
(* delimited by its blocking socket reads; every party is one sequential   *)
(* process with two steps (mask, finalize), each started by a blocking     *)
(* read.  random.randint is a nondeterministic choice over its range.      *)
(***************************************************************************)
EXTENDS Integers, Sequences, FiniteSets, TLC

\* ------------------------------------------------------------------ bounds
MaxParties == 3      \* NUM_PARTIES ranges over 2..MaxParties
MaxModulus == 3      \* MODULUS ranges over 2..MaxModulus
MaxLen == 3          \* len(x_vec) ranges over 1..MaxLen
\* A configuration is explored when its inputs and random choices number at most
\* 2^MaxChoiceBits (every draw free) or 2^MaxClearBits (only the clear triple free).
MaxChoiceBits == 16
MaxClearBits == 12
\* The same as MaxClearBits for the runs checked for liveness or with faults.
MaxSmallBits == 8

VARIABLES
  SHARE_TYPE,      \* coordinator.py:20  "additive" or "xor"
  MODULUS,         \* coordinator.py:21
  NUM_PARTIES,     \* coordinator.py:17
  x_vec, y_vec,    \* coordinator.py:61-62  the input vectors
  pc,              \* position of the coordinator's main thread
  clients,         \* self.clients: accepted connections, in accept order
  x_shares, y_shares,              \* coordinator.py:70-71
  a_shares, b_shares, c_shares,    \* coordinator.py:72
  abc,             \* the clear a, b, c of generate_beaver_triples, per index
  responses,       \* coordinator.py:91
  d_vec, e_vec,    \* coordinator.py:92-93
  de_shares,       \* coordinator.py:105-108
  result_shares,   \* coordinator.py:120
  products, dot_product,           \* coordinator.py:123, 132
  printed,         \* what lines 146-150 have printed (<<>> before)
  outcome,         \* how run_computation ended: "running", "done" or an exception
  down, up,        \* per connection: bytes coordinator->party, party->coordinator
  party,           \* per party: its position and the locals of run_protocol
  silent,          \* parties that stay connected and never send again
  secret, shares,  \* argument and return value of a lone share_secret call
  handlers,        \* coordinator.py:164, 173-177: live handle_client threads, each
                   \* inside `with conn:` and so holding its connection open
  idle             \* coordinator.py:170-171: iterations of the keep-alive loop, mod 2

cfgVars == <<SHARE_TYPE, MODULUS, NUM_PARTIES, x_vec, y_vec>>
dealVars == <<x_shares, y_shares, a_shares, b_shares, c_shares, abc>>
maskVars == <<responses, d_vec, e_vec, de_shares>>
resVars == <<result_shares, products, dot_product, printed>>
unitVars == <<secret, shares>>
lifeVars == <<handlers, idle>>
vars == <<cfgVars, pc, clients, dealVars, maskVars, resVars, outcome, down, up,
          party, silent, unitVars, lifeVars>>

\* --------------------------------------------------------- python integers
RECURSIVE SumSeq(_)
\* sum(list)
SumSeq(s) == IF s = <<>> THEN 0 ELSE Head(s) + SumSeq(Tail(s))

RECURSIVE BitXor(_, _)
\* a ^ b on non-negative ints
BitXor(a, b) ==
  IF a = 0 THEN b
  ELSE IF b = 0 THEN a
  ELSE (((a % 2) + (b % 2)) % 2) + 2 * BitXor(a \div 2, b \div 2)

RECURSIVE BitAnd(_, _)
\* a & b on non-negative ints
BitAnd(a, b) ==
  IF a = 0 \/ b = 0 THEN 0
  ELSE ((a % 2) * (b % 2)) + 2 * BitAnd(a \div 2, b \div 2)

\* range(NUM_PARTIES), range(n) as 1-based index sets
Parties == 1..NUM_PARTIES
Idx == 1..Len(x_vec)

\* The values random.randint(0, MODULUS-1) / random.randint(0, 1) can return.
RandRange == IF SHARE_TYPE = "additive" THEN 0..(MODULUS - 1) ELSE 0..1

\* The Field's domain: what a secret, a share or a reported value may be.
Domain == IF SHARE_TYPE = "additive" THEN 0..(MODULUS - 1) ELSE 0..1

\* ---------------------------------------------------------- share_secret
\* coordinator.py:34: the assert of the XOR branch (the additive branch has none)
ShareSecretRaises(s) == SHARE_TYPE # "additive" /\ s \notin {0, 1}

\* coordinator.py:32 and :36: the last share, from the N-1 drawn ones
LastShareNoMod(s, r) ==
  IF SHARE_TYPE = "additive" THEN s - SumSeq(r) ELSE BitXor(s, SumSeq(r))
LastShareIgnoresDraws(s, r) ==
  IF SHARE_TYPE = "additive" THEN s % MODULUS ELSE s
LastShare(s, r) ==
  IF SHARE_TYPE = "additive"
  THEN (s - SumSeq(r)) % MODULUS
  ELSE BitXor(s, SumSeq(r) % 2)

\* share_secret(secret) when the N-1 draws come out as the sequence r
share_secret(s, r) == Append(r, LastShare(s, r))

\* the N-1 draws of one call, each from R
Draws(R) == [1..(NUM_PARTIES - 1) -> R]

\* every list share_secret(s) can return
ShareSecretOutcomes(s) == {share_secret(s, r) : r \in Draws(RandRange)}

\* Field-sum of a list of values, folded from the left as lines 95-102 and
\* 124-137 fold the parties' values into an accumulator that starts at 0
RECURSIVE Reconstruct(_)
Reconstruct(v) ==
  IF v = <<>> THEN 0
  ELSE LET front == SubSeq(v, 1, Len(v) - 1)
       IN IF SHARE_TYPE = "additive"
          THEN (Reconstruct(front) + v[Len(v)]) % MODULUS
          ELSE BitXor(Reconstruct(front), v[Len(v)])

\* mul of the Field, as lines 46 / 50 and 141 compute it
Mul(a, b) == IF SHARE_TYPE = "additive" THEN (a * b) % MODULUS ELSE BitAnd(a, b)

\* ------------------------------------------------- generate_beaver_triples
\* coordinator.py:46 / :50: c from the clear a and b
BeaverCAdds(a, b) == IF SHARE_TYPE = "additive" THEN (a + b) % MODULUS ELSE BitXor(a, b)
BeaverC(a, b) == IF SHARE_TYPE = "additive" THEN (a * b) % MODULUS ELSE BitAnd(a, b)

\* The random choices of one generate_beaver_triples(n) call: per index the clear
\* a and b (from RT) and the N-1 draws of each of the three share_secret calls
\* (from RS).
TripleRand(n, RT, RS) ==
  [a : [1..n -> RT], b : [1..n -> RT],
   ar : [1..n -> Draws(RS)], br : [1..n -> Draws(RS)], cr : [1..n -> Draws(RS)]]

\* generate_beaver_triples(n) under the random choices t: the three returned
\* lists, and the loop's clear (a, b, c) per index
generate_beaver_triples(n, t) ==
  [a_list |-> [j \in 1..n |-> share_secret(t.a[j], t.ar[j])],
   b_list |-> [j \in 1..n |-> share_secret(t.b[j], t.br[j])],
   c_list |-> [j \in 1..n |-> share_secret(BeaverC(t.a[j], t.b[j]), t.cr[j])],
   clear  |-> [j \in 1..n |-> [a |-> t.a[j], b |-> t.b[j],
                               c |-> BeaverC(t.a[j], t.b[j])]]]

\* ------------------------------------------------------------------ party
\* a mask that adds the triple share instead of subtracting it
MaskNoSub(type, mod, x, a) == IF type = "additive" THEN (x + a) % mod ELSE BitXor(x, a)
\* a mask that sends the input share as it is
MaskKeepsInput(type, mod, x, a) == x
\* party.py:44-49: one masked value
Mask(type, mod, x, a) == IF type = "additive" THEN (x - a) % mod ELSE BitXor(x, a)

\* party.py:36-54: the mask report a party sends for the inputs `data`
MaskReport(data) ==
  [d |-> [j \in 1..Len(data.x_vec) |->
            Mask(data.type, data.mod, data.x_vec[j], data.beavers[j].a)],
   e |-> [j \in 1..Len(data.y_vec) |->
            Mask(data.type, data.mod, data.y_vec[j], data.beavers[j].b)]]

\* a product share that leaves out the share of c
TermDropsC(data, msg, j) ==
  IF data.type = "additive"
  THEN (msg.de_shares[j] + msg.d_vec[j] * data.beavers[j].b
        + msg.e_vec[j] * data.beavers[j].a) % data.mod
  ELSE BitXor(BitAnd(msg.d_vec[j], data.beavers[j].b),
              BitAnd(msg.e_vec[j], data.beavers[j].a))

\* party.py:71-74: the product share of index j
Term(data, msg, j) ==
  IF data.type = "additive"
  THEN (msg.de_shares[j] + msg.d_vec[j] * data.beavers[j].b
        + msg.e_vec[j] * data.beavers[j].a + data.beavers[j].c) % data.mod
  ELSE BitXor(BitXor(BitAnd(msg.d_vec[j], data.beavers[j].b),
                     BitAnd(msg.e_vec[j], data.beavers[j].a)),
              data.beavers[j].c)

RECURSIVE DotShare(_, _)
\* party.py:64, 77-81: dot_share after the loop has run over the terms ts
DotShare(data, ts) ==
  IF ts = <<>> THEN 0
  ELSE LET front == SubSeq(ts, 1, Len(ts) - 1)
           term == ts[Len(ts)]
       IN IF data.type = "additive"
          THEN (DotShare(data, front) + term) % data.mod
          ELSE BitXor(DotShare(data, front), term)

\* party.py:62-88: the result report a party sends
ResultReport(data, msg) ==
  LET ts == [j \in 1..Len(data.x_vec) |-> Term(data, msg, j)]
  IN [products |-> ts,
      dot_product |-> IF data.compute_dot THEN DotShare(data, ts) ELSE -1]

\* ------------------------------------------------------------- coordinator
\* a payload built from the shares of the next position
InputDataOfNext(i, xs, ys, t) ==
  LET k == (i % NUM_PARTIES) + 1
  IN [x_vec |-> [j \in 1..Len(xs) |-> xs[j][k]],
      y_vec |-> [j \in 1..Len(ys) |-> ys[j][k]],
      beavers |-> [j \in 1..Len(xs) |->
                     [a |-> t.a_list[j][k], b |-> t.b_list[j][k], c |-> t.c_list[j][k]]],
      type |-> SHARE_TYPE, mod |-> MODULUS, compute_dot |-> TRUE]

\* a payload that hands out the first triple for every index
InputDataOneTriple(i, xs, ys, t) ==
  [x_vec |-> [j \in 1..Len(xs) |-> xs[j][i]],
   y_vec |-> [j \in 1..Len(ys) |-> ys[j][i]],
   beavers |-> [j \in 1..Len(xs) |->
                  [a |-> t.a_list[1][i], b |-> t.b_list[1][i], c |-> t.c_list[1][i]]],
   type |-> SHARE_TYPE, mod |-> MODULUS, compute_dot |-> TRUE]

\* coordinator.py:76-87: the payload for the party at position i of self.clients
InputData(i, xs, ys, t) ==
  [x_vec |-> [j \in 1..Len(xs) |-> xs[j][i]],
   y_vec |-> [j \in 1..Len(ys) |-> ys[j][i]],
   beavers |-> [j \in 1..Len(xs) |->
                  [a |-> t.a_list[j][i], b |-> t.b_list[j][i], c |-> t.c_list[j][i]]],
   type |-> SHARE_TYPE, mod |-> MODULUS, compute_dot |-> TRUE]

\* coordinator.py:92-102: d_vec (f = "d") or e_vec (f = "e") from the responses
Aggregate(rs, f) ==
  [j \in Idx |-> Reconstruct([i \in 1..Len(rs) |-> rs[i][f][j]])]

\* coordinator.py:112-116: the broadcast for the party at position i
PublicMsg(i, d, e, de) ==
  [d_vec |-> d, e_vec |-> e,
   de_shares |-> IF SHARE_TYPE = "additive" THEN [j \in Idx |-> de[j][i]] ELSE <<>>]

\* coordinator.py:140-144: expected_products and expected_dot of the verification
ExpectedProducts == [j \in Idx |-> Mul(x_vec[j], y_vec[j])]
ExpectedDot ==
  IF SHARE_TYPE = "additive"
  THEN SumSeq(ExpectedProducts) % MODULUS
  ELSE SumSeq(ExpectedProducts) % 2

\* coordinator.py:159-164: start() accepts one more connection and starts its
\* handle_client thread; the party's connect() returns and it blocks in
\* run_protocol's first recv (party.py:19-27)
Accept ==
  /\ pc = "accept"
  /\ Len(clients) < NUM_PARTIES
  /\ LET i == Len(clients) + 1
     IN /\ clients' = Append(clients, i)
        /\ party' = [party EXCEPT ![i].pc = "recv_inputs"]
        /\ handlers' = handlers \cup {i}
  /\ UNCHANGED <<cfgVars, pc, dealVars, maskVars, resVars, outcome, down, up,
                 silent, unitVars, idle>>

\* coordinator.py:167, 56-88: run_computation up to its first blocking recv:
\* share the inputs, generate the triples, send every party its slice.  RT is
\* the set the clear a, b are drawn from and RS the set the share draws come from.
\* The XOR assert (line 34) ends the run before anything is sent: the exception
\* leaves start(), the process exits and its daemon threads with it.
DistributeInputs(RT, RS) ==
  /\ pc = "accept"
  /\ Len(clients) = NUM_PARTIES
  /\ IF \E j \in Idx : ShareSecretRaises(x_vec[j]) \/ ShareSecretRaises(y_vec[j])
     THEN /\ pc' = "raised"
          /\ outcome' = "AssertionError"
          /\ party' = [i \in Parties |-> [party[i] EXCEPT !.pc = "eof"]]
          /\ handlers' = {}
          /\ UNCHANGED <<dealVars, down>>
     ELSE \E xr \in [Idx -> Draws(RS)], yr \in [Idx -> Draws(RS)],
             t \in TripleRand(Len(x_vec), RT, RS) :
            LET xs == [j \in Idx |-> share_secret(x_vec[j], xr[j])]
                ys == [j \in Idx |-> share_secret(y_vec[j], yr[j])]
                g == generate_beaver_triples(Len(x_vec), t)
            IN /\ x_shares' = xs
               /\ y_shares' = ys
               /\ a_shares' = g.a_list
               /\ b_shares' = g.b_list
               /\ c_shares' = g.c_list
               /\ abc' = g.clear
               /\ down' = [i \in Parties |-> Append(down[i], InputData(i, xs, ys, g))]
               /\ pc' = "recv_masks"
               /\ UNCHANGED <<outcome, party, handlers>>
  /\ UNCHANGED <<cfgVars, clients, maskVars, resVars, up, silent, unitVars, idle>>

\* coordinator.py:91: the next blocking recv of the list comprehension, on the
\* connections in accept order
RecvMaskFirstClient ==
  /\ pc = "recv_masks"
  /\ up[1] # <<>>
  /\ responses' = Append(responses, Head(up[1]))
  /\ up' = [up EXCEPT ![1] = Tail(@)]
  /\ pc' = IF Len(responses) + 1 = NUM_PARTIES THEN "publics" ELSE "recv_masks"
  /\ UNCHANGED <<cfgVars, clients, dealVars, d_vec, e_vec, de_shares, resVars,
                 outcome, down, party, silent, unitVars, lifeVars>>
\* a receive that moves on after the first mask report
RecvMaskNoBarrier ==
  /\ pc = "recv_masks"
  /\ LET i == Len(responses) + 1
     IN /\ up[i] # <<>>
        /\ responses' = Append(responses, Head(up[i]))
        /\ up' = [up EXCEPT ![i] = Tail(@)]
        /\ pc' = "publics"
  /\ UNCHANGED <<cfgVars, clients, dealVars, d_vec, e_vec, de_shares, resVars,
                 outcome, down, party, silent, unitVars, lifeVars>>
RecvMask ==
  /\ pc = "recv_masks"
  /\ LET i == Len(responses) + 1
     IN /\ up[i] # <<>>
        /\ responses' = Append(responses, Head(up[i]))
        /\ up' = [up EXCEPT ![i] = Tail(@)]
        /\ pc' = IF i = NUM_PARTIES THEN "publics" ELSE "recv_masks"
  /\ UNCHANGED <<cfgVars, clients, dealVars, d_vec, e_vec, de_shares, resVars,
                 outcome, down, party, silent, unitVars, lifeVars>>

\* coordinator.py:92-117: aggregate d and e, share the cross terms (additive
\* only), broadcast; then block in the first recv of line 120
DistributePublics(RS) ==
  /\ pc = "publics"
  /\ LET d == Aggregate(responses, "d")
         e == Aggregate(responses, "e")
         \* lines 105-108: the choices of de_shares
         des == IF SHARE_TYPE = "additive"
                THEN {[j \in Idx |-> share_secret((d[j] * e[j]) % MODULUS, r[j])] :
                        r \in [Idx -> Draws(RS)]}
                ELSE {[j \in Idx |-> <<>>]}
     IN \E de \in des :
          /\ d_vec' = d
          /\ e_vec' = e
          /\ de_shares' = de
          /\ down' = [i \in Parties |-> Append(down[i], PublicMsg(i, d, e, de))]
  /\ pc' = "recv_results"
  /\ UNCHANGED <<cfgVars, clients, dealVars, responses, resVars, outcome, up,
                 party, silent, unitVars, lifeVars>>

\* a receive that moves on after the first result report
RecvResultNoBarrier ==
  /\ pc = "recv_results"
  /\ LET i == Len(result_shares) + 1
     IN /\ up[i] # <<>>
        /\ result_shares' = Append(result_shares, Head(up[i]))
        /\ up' = [up EXCEPT ![i] = Tail(@)]
        /\ pc' = "reconstruct"
  /\ UNCHANGED <<cfgVars, clients, dealVars, maskVars, products, dot_product,
                 printed, outcome, down, party, silent, unitVars, lifeVars>>

\* coordinator.py:120: the next blocking recv of the second list comprehension
RecvResult ==
  /\ pc = "recv_results"
  /\ LET i == Len(result_shares) + 1
     IN /\ up[i] # <<>>
        /\ result_shares' = Append(result_shares, Head(up[i]))
        /\ up' = [up EXCEPT ![i] = Tail(@)]
        /\ pc' = IF i = NUM_PARTIES THEN "reconstruct" ELSE "recv_results"
  /\ UNCHANGED <<cfgVars, clients, dealVars, maskVars, products, dot_product,
                 printed, outcome, down, party, silent, unitVars, lifeVars>>

\* coordinator.py:122-150, 169-171: reconstruct products and dot product, print
\* them beside the expected values, return to start() and its keep-alive loop
ReconstructResults ==
  /\ pc = "reconstruct"
  /\ LET ps == [j \in Idx |->
                  Reconstruct([i \in 1..Len(result_shares) |-> result_shares[i].products[j]])]
         dp == Reconstruct([i \in 1..Len(result_shares) |-> result_shares[i].dot_product])
     IN /\ products' = ps
        /\ dot_product' = dp
        /\ printed' = <<[products |-> ps, expected_products |-> ExpectedProducts,
                         dot_product |-> dp, expected_dot |-> ExpectedDot]>>
  /\ pc' = "keepalive"
  /\ outcome' = "done"
  /\ UNCHANGED <<cfgVars, clients, dealVars, maskVars, result_shares, down, up,
                 party, silent, unitVars, lifeVars>>

\* coordinator.py:169-171: one more iteration of `while True: pass` in start().
\* The loop has no exit; the handle_client threads (lines 173-177) spin in the
\* same way inside `with conn:` and change nothing, so they have no action.
KeepAlive ==
  /\ pc = "keepalive"
  /\ idle' = 1 - idle
  /\ UNCHANGED <<cfgVars, pc, clients, dealVars, maskVars, resVars, outcome, down,
                 up, party, silent, unitVars, handlers>>

\* ---------------------------------------------------------- party steps
\* party.py:26-54: receive the inputs, compute and send the masked values
PartyMask(i) ==
  /\ party[i].pc = "recv_inputs"
  /\ i \notin silent
  /\ down[i] # <<>>
  /\ LET data == Head(down[i])
     IN /\ party' = [party EXCEPT ![i] = [pc |-> "recv_publics", data |-> data]]
        /\ up' = [up EXCEPT ![i] = Append(@, MaskReport(data))]
  /\ down' = [down EXCEPT ![i] = Tail(@)]
  /\ UNCHANGED <<cfgVars, pc, clients, dealVars, maskVars, resVars, outcome,
                 silent, unitVars, lifeVars>>

\* party.py:56-88: receive the public values, compute and send the result shares
PartyFinalize(i) ==
  /\ party[i].pc = "recv_publics"
  /\ i \notin silent
  /\ down[i] # <<>>
  /\ LET msg == Head(down[i])
     IN up' = [up EXCEPT ![i] = Append(@, ResultReport(party[i].data, msg))]
  /\ party' = [party EXCEPT ![i].pc = "finished"]
  /\ down' = [down EXCEPT ![i] = Tail(@)]
  /\ UNCHANGED <<cfgVars, pc, clients, dealVars, maskVars, resVars, outcome,
                 silent, unitVars, lifeVars>>

\* ------------------------------------------------------------ initial states
\* the state of the coordinator and of the parties before the first accept
Blank ==
  /\ clients = <<>>
  /\ x_shares = <<>> /\ y_shares = <<>>
  /\ a_shares = <<>> /\ b_shares = <<>> /\ c_shares = <<>> /\ abc = <<>>
  /\ responses = <<>> /\ d_vec = <<>> /\ e_vec = <<>> /\ de_shares = <<>>
  /\ result_shares = <<>> /\ products = <<>> /\ dot_product = 0
  /\ printed = <<>>
  /\ outcome = "running"
  /\ down = [i \in Parties |-> <<>>]
  /\ up = [i \in Parties |-> <<>>]
  /\ party = [i \in Parties |-> [pc |-> "connect", data |-> <<>>]]
  /\ silent = {}
  /\ shares = <<>>
  /\ handlers = {}
  /\ idle = 0

Fresh == pc = "accept" /\ secret = 0 /\ Blank

\* the values a scheme's Field holds
DomainOf(st, m) == IF st = "additive" THEN 0..(m - 1) ELSE 0..1

RECURSIVE Pow(_, _)
\* b^e by repeated squaring; exact up to 2^24, some larger value above that
Pow(b, e) ==
  IF e = 0 THEN 1
  ELSE LET h == Pow(b, e \div 2)
           sq == IF h > 4096 THEN 16777217 ELSE h * h
       IN IF e % 2 = 0 \/ sq > 16777216 THEN sq ELSE b * sq

\* how many elements a scheme's Field has
FieldSize(st, m) == IF st = "additive" THEN m ELSE 2

\* The number of (inputs, random draws) combinations of one run with N parties
\* and n indices: 2n inputs, 2n clear triple values, 5n(N-1) share draws, and
\* n(N-1) cross-term share draws in the additive scheme.
AllChoices(st, N, m, n) ==
  Pow(FieldSize(st, m),
      4 * n + 5 * n * (N - 1) + (IF st = "additive" THEN n * (N - 1) ELSE 0))

\* The same when every share draw is 0: 2n inputs and 2n clear triple values.
ClearChoices(st, N, m, n) == Pow(FieldSize(st, m), 4 * n)

\* coordinator.py:17-21, 61-62: a configuration and in-domain input vectors
Configured(n) ==
  /\ SHARE_TYPE \in {"additive", "xor"}
  /\ NUM_PARTIES \in 2..MaxParties
  /\ MODULUS \in 2..MaxModulus
  /\ SHARE_TYPE = "xor" => MODULUS = 2
  /\ n \in 1..MaxLen

Init ==
  /\ \E n \in 1..MaxLen :
       /\ Configured(n)
       /\ AllChoices(SHARE_TYPE, NUM_PARTIES, MODULUS, n) <= Pow(2, MaxChoiceBits)
       /\ x_vec \in [1..n -> DomainOf(SHARE_TYPE, MODULUS)]
       /\ y_vec \in [1..n -> DomainOf(SHARE_TYPE, MODULUS)]
  /\ Fresh

Next ==
  \/ Accept
  \/ DistributeInputs(RandRange, RandRange)
  \/ RecvMask
  \/ DistributePublics(RandRange)
  \/ RecvResult
  \/ ReconstructResults
  \/ KeepAlive
  \/ \E i \in Parties : PartyMask(i)
  \/ \E i \in Parties : PartyFinalize(i)

Spec == Init /\ [][Next]_vars

\* ---------------------------------------------- runs with zero share draws
\* Longer vectors: every share_secret draw is 0 (one value randint can return),
\* the clear a and b of every triple are free.
InitClear ==
  /\ \E n \in 1..MaxLen :
       /\ Configured(n)
       /\ ClearChoices(SHARE_TYPE, NUM_PARTIES, MODULUS, n) <= Pow(2, MaxClearBits)
       /\ x_vec \in [1..n -> DomainOf(SHARE_TYPE, MODULUS)]
       /\ y_vec \in [1..n -> DomainOf(SHARE_TYPE, MODULUS)]
  /\ Fresh

\* the steps of the coordinator's main thread after the accepts
CoordinatorStep(RT, RS) ==
  \/ DistributeInputs(RT, RS)
  \/ RecvMask
  \/ DistributePublics(RS)
  \/ RecvResult
  \/ ReconstructResults
  \/ KeepAlive

\* the steps of the party process on connection i
PartyStep(i) == i \in Parties /\ (PartyMask(i) \/ PartyFinalize(i))

NextClear ==
  \/ Accept
  \/ DistributeInputs(RandRange, {0})
  \/ RecvMask
  \/ DistributePublics({0})
  \/ RecvResult
  \/ ReconstructResults
  \/ KeepAlive
  \/ \E i \in Parties : PartyMask(i)
  \/ \E i \in Parties : PartyFinalize(i)

SpecClear == InitClear /\ [][NextClear]_vars

InitLive ==
  /\ \E n \in 1..MaxLen :
       /\ Configured(n)
       /\ ClearChoices(SHARE_TYPE, NUM_PARTIES, MODULUS, n) <= Pow(2, MaxSmallBits)
       /\ x_vec \in [1..n -> DomainOf(SHARE_TYPE, MODULUS)]
       /\ y_vec \in [1..n -> DomainOf(SHARE_TYPE, MODULUS)]
  /\ Fresh

\* The coordinator's main thread and every party process are scheduled whenever
\* they can run: a step that stays possible is eventually taken.
SpecLive ==
  /\ InitLive
  /\ [][NextClear]_vars
  /\ WF_vars(CoordinatorStep(RandRange, {0}))
  /\ \A i \in 1..MaxParties : WF_vars(PartyStep(i))

\* ------------------------------------------------- faults of the environment
\* the smallest value above the Field's domain
OutOfRange == IF SHARE_TYPE = "additive" THEN MODULUS ELSE 2

\* A party stays connected and sends nothing more (a stalled process, a dead
\* link): its socket stays open, so recv on it neither returns nor raises.
GoSilent(i) ==
  /\ party[i].pc \in {"recv_inputs", "recv_publics"}
  /\ i \notin silent
  /\ silent' = silent \cup {i}
  /\ UNCHANGED <<cfgVars, pc, clients, dealVars, maskVars, resVars, outcome, down,
                 up, party, unitVars, lifeVars>>

\* The report waiting on connection i carries a value outside the Field at index
\* j (d of a mask report, products of a result report): pickle.loads
\* (coordinator.py:91, 120) returns whatever integers the bytes hold.
Malformed(i, j) ==
  /\ up[i] # <<>>
  /\ LET m == Head(up[i])
         f == IF "d" \in DOMAIN m THEN "d" ELSE "products"
     IN /\ m[f][j] \in Domain
        /\ up' = [up EXCEPT ![i] = <<[m EXCEPT ![f][j] = OutOfRange]>> \o Tail(@)]
  /\ UNCHANGED <<cfgVars, pc, clients, dealVars, maskVars, resVars, outcome, down,
                 party, silent, unitVars, lifeVars>>

\* inputs that may lie one above the Field's domain
InitFault ==
  /\ \E n \in 1..MaxLen :
       /\ Configured(n)
       /\ Pow(FieldSize(SHARE_TYPE, MODULUS) + 1, 2 * n) <= Pow(2, MaxSmallBits)
       /\ Pow(FieldSize(SHARE_TYPE, MODULUS) + 1, 2 * n)
            * Pow(FieldSize(SHARE_TYPE, MODULUS), 2 * n) <= Pow(2, MaxSmallBits)
       /\ x_vec \in [1..n -> 0..FieldSize(SHARE_TYPE, MODULUS)]
       /\ y_vec \in [1..n -> 0..FieldSize(SHARE_TYPE, MODULUS)]
  /\ Fresh

NextFault ==
  \/ Accept
  \/ DistributeInputs(RandRange, {0})
  \/ RecvMask
  \/ DistributePublics({0})
  \/ RecvResult
  \/ ReconstructResults
  \/ KeepAlive
  \/ \E i \in Parties : PartyMask(i)
  \/ \E i \in Parties : PartyFinalize(i)
  \/ \E i \in Parties : GoSilent(i)
  \/ \E i \in Parties : \E j \in Idx : Malformed(i, j)

SpecFault == InitFault /\ [][NextFault]_vars

\* --------------------------------------------------- lone function calls
\* The number of random choices of one generate_beaver_triples(n) call.
TripleChoices(st, N, m, n) == Pow(FieldSize(st, m), 2 * n + 3 * n * (N - 1))

\* a configuration, and either a secret for share_secret (one above the domain
\* included) or nothing for generate_beaver_triples
InitUnit ==
  /\ Configured(1)
  /\ x_vec = <<>> /\ y_vec = <<>>
  /\ \/ pc = "call_share_secret" /\ secret \in 0..FieldSize(SHARE_TYPE, MODULUS)
     \/ pc = "call_generate_beaver_triples" /\ secret = 0
  /\ Blank

\* coordinator.py:28-37: share_secret(secret) returns, or its assert raises
CallShareSecret ==
  /\ pc = "call_share_secret"
  /\ IF ShareSecretRaises(secret)
     THEN pc' = "raised" /\ outcome' = "AssertionError" /\ UNCHANGED shares
     ELSE /\ \E r \in Draws(RandRange) : shares' = share_secret(secret, r)
          /\ pc' = "returned"
          /\ UNCHANGED outcome
  /\ UNCHANGED <<cfgVars, clients, dealVars, maskVars, resVars, down, up, party,
                 silent, secret, lifeVars>>

\* coordinator.py:39-54: generate_beaver_triples(n) returns
CallGenerateTriples ==
  /\ pc = "call_generate_beaver_triples"
  /\ \E n \in 1..MaxLen :
       /\ TripleChoices(SHARE_TYPE, NUM_PARTIES, MODULUS, n) <= Pow(2, MaxChoiceBits)
       /\ \E t \in TripleRand(n, RandRange, RandRange) :
            LET g == generate_beaver_triples(n, t)
            IN /\ a_shares' = g.a_list
               /\ b_shares' = g.b_list
               /\ c_shares' = g.c_list
               /\ abc' = g.clear
  /\ pc' = "returned"
  /\ UNCHANGED <<cfgVars, clients, x_shares, y_shares, maskVars, resVars, outcome,
                 down, up, party, silent, unitVars, lifeVars>>

NextUnit == CallShareSecret \/ CallGenerateTriples

SpecUnit == InitUnit /\ [][NextUnit]_vars

\* ================================================================ claims
\* The Field of the specification: its order, product and sum.
FieldOrder == IF SHARE_TYPE = "additive" THEN MODULUS ELSE 2
FieldMul(a, b) == (a * b) % FieldOrder
FieldSum(v) == SumSeq(v) % FieldOrder
InDomain(v) == \A k \in DOMAIN v : v[k] \in 0..(FieldOrder - 1)
ValidInputs == InDomain(x_vec) /\ InDomain(y_vec)
Exposed == pc = "keepalive" /\ printed # <<>>

\* C1: End-to-end multiplication: in both schemes, for in-domain inputs and every
\* choice of dealer randomness, the products the coordinator reconstructs from
\* the N parties' terms are products_j = mul(x_j, y_j).
C1_ProductsCorrect ==
  (Exposed /\ ValidInputs) =>
     \A j \in Idx : products[j] = FieldMul(x_vec[j], y_vec[j])

\* C2: Dot product: in both schemes the dot value the coordinator reconstructs
\* from the parties' dot shares is the Field-sum over j of mul(x_j, y_j).
C2_DotCorrect ==
  (Exposed /\ ValidInputs) =>
     dot_product = FieldSum([j \in Idx |-> FieldMul(x_vec[j], y_vec[j])])

\* coordinator.py:61-62 with SHARE_TYPE = "xor" and NUM_PARTIES = 3
ScenarioB ==
  /\ SHARE_TYPE = "xor" /\ NUM_PARTIES = 3
  /\ x_vec = <<1, 0, 1>> /\ y_vec = <<1, 1, 0>>

\* C3: Scenario B: in the XOR scheme with N = 3, x = [1,0,1], y = [1,1,0], every
\* run ends with products = [1,0,0] and dot = 1.
C3_ScenarioB ==
  (ScenarioB /\ Exposed) => (products = <<1, 0, 0>> /\ dot_product = 1)

\* C4: Share/reconstruct round trip: for every valid secret, share_secret returns
\* exactly N in-domain elements whose Field-sum is the secret.
C4_ShareRoundTrip ==
  (pc = "returned" /\ shares # <<>> /\ secret \in Domain) =>
     /\ Len(shares) = NUM_PARTIES
     /\ InDomain(shares)
     /\ FieldSum(shares) = secret
C4_Witness ==
  /\ pc = "returned" /\ secret \in Domain /\ secret # 0
  /\ NUM_PARTIES > 2
  /\ \A k \in 1..(NUM_PARTIES - 1) : shares[k] = FieldOrder - 1

\* The share vectors share_secret(s) can return that show `view` at every
\* position but k.
Consistent(s, k, view) ==
  {v \in ShareSecretOutcomes(s) : \A q \in Parties \ {k} : v[q] = view[q]}

\* C5: Hiding: for every N-1 positions and every assignment of in-domain values
\* to them (the one share_secret returned among them), every secret is consistent
\* with the assignment through exactly one value of the remaining share.
C5_Hiding ==
  (pc = "returned" /\ shares # <<>> /\ secret \in Domain) =>
     \A k \in Parties :
        /\ shares \in Consistent(secret, k, shares)
        /\ \A s \in Domain : Cardinality(Consistent(s, k, shares)) = 1
        /\ \A view \in [Parties \ {k} -> Domain] : \A s \in Domain :
              Cardinality(Consistent(s, k, view)) = 1
C5_Witness ==
  /\ pc = "returned" /\ shares # <<>> /\ secret \in Domain
  /\ NUM_PARTIES > 2 /\ FieldOrder > 2
  /\ \E s \in Domain : s # secret /\ Consistent(s, 1, shares) # {}

\* C6: Triple validity: for every triple of generate_beaver_triples(n), in both
\* schemes, c = mul(a, b) before sharing, and the three share vectors reconstruct
\* to A, B, C with C = mul(A, B).
C6_TripleValid ==
  (pc = "returned" /\ abc # <<>>) =>
     /\ Len(a_shares) = Len(abc) /\ Len(b_shares) = Len(abc) /\ Len(c_shares) = Len(abc)
     /\ \A j \in DOMAIN abc :
          /\ abc[j].c = FieldMul(abc[j].a, abc[j].b)
          /\ FieldSum(a_shares[j]) = abc[j].a
          /\ FieldSum(b_shares[j]) = abc[j].b
          /\ FieldSum(c_shares[j]) = FieldMul(FieldSum(a_shares[j]), FieldSum(b_shares[j]))
C6_Witness ==
  /\ pc = "returned" /\ Len(abc) > 1
  /\ abc[1].a = FieldOrder - 1 /\ abc[1].b = FieldOrder - 1
  /\ abc[2].a = 0
  /\ c_shares[1][1] # 0

\* the party the coordinator's pending recv waits for
Awaited ==
  IF pc = "recv_masks" THEN Len(responses) + 1
  ELSE IF pc = "recv_results" THEN Len(result_shares) + 1
  ELSE 0

\* C7: Missing party: when the party whose reply the coordinator awaits never
\* sends it, the run ends in MissingParty: the coordinator has failed so, or
\* can still take a step, and is never left waiting without bound.
C7_MissingPartyFails ==
  (ValidInputs /\ Awaited \in silent /\ up[Awaited] = <<>>) =>
     (outcome = "MissingParty" \/ ENABLED CoordinatorStep(RandRange, {0}))

MalformedMask ==
  \E i \in DOMAIN responses :
     ~InDomain(responses[i].d) \/ ~InDomain(responses[i].e)
MalformedResult ==
  \E i \in DOMAIN result_shares : ~InDomain(result_shares[i].products)

\* C8: Malformed value: once a received mask or result report holds a value
\* outside the Field, the run is not completed (it fails with MalformedMessage)
\* and the report is not aggregated into d, e, products or dot.
C8_MalformedRejected ==
  /\ (ValidInputs /\ MalformedMask) =>
       (outcome \in {"running", "MalformedMessage"} /\ d_vec = <<>> /\ e_vec = <<>>)
  /\ (ValidInputs /\ MalformedResult) =>
       (outcome \in {"running", "MalformedMessage"} /\ products = <<>>)

\* C9: Invalid input: in both schemes, when an element of x or y is outside the
\* Field, the run fails before any message is sent to any party and no share of
\* the inputs is produced.
C9_InvalidInputRejected ==
  (pc \notin {"call_share_secret", "call_generate_beaver_triples", "returned"}
   /\ ~ValidInputs) =>
     /\ outcome \in {"running", "InvalidInput", "AssertionError"}
     /\ x_shares = <<>> /\ y_shares = <<>>
     /\ \A i \in Parties :
          down[i] = <<>> /\ party[i].pc \in {"connect", "recv_inputs", "eof"}

AllRegistered == Len(clients) = NUM_PARTIES
Completed ==
  /\ Exposed
  /\ Len(products) = Len(x_vec)
  /\ Len(responses) = NUM_PARTIES /\ Len(result_shares) = NUM_PARTIES
  /\ \A i \in Parties : up[i] = <<>> /\ down[i] = <<>> /\ party[i].pc = "finished"

\* C10: Liveness of a healthy run: once N parties have registered and every
\* party replies in each phase, under fair scheduling the coordinator eventually
\* exposes the products and the dot product, with exactly one mask report and
\* one result report of every party received and none left over.
C10_HealthyRunCompletes == AllRegistered ~> Completed
C10_Witness == Completed /\ NUM_PARTIES = 3 /\ Len(x_vec) = 2

\* the message m carries, index by index, the shares at position i and nothing else
OwnSlice(i, m) ==
  /\ DOMAIN m = {"x_vec", "y_vec", "beavers", "type", "mod", "compute_dot"}
  /\ Len(m.x_vec) = Len(x_vec) /\ Len(m.y_vec) = Len(y_vec)
  /\ Len(m.beavers) = Len(x_vec)
  /\ \A j \in Idx :
       /\ m.x_vec[j] = x_shares[j][i]
       /\ m.y_vec[j] = y_shares[j][i]
       /\ m.beavers[j] = [a |-> a_shares[j][i], b |-> b_shares[j][i], c |-> c_shares[j][i]]
\* the broadcast m carries d, e and at most the cross-term shares at position i
OwnPublic(i, m) ==
  /\ DOMAIN m = {"d_vec", "e_vec", "de_shares"}
  /\ Len(m.de_shares) \in {0, Len(x_vec)}
  /\ \A j \in DOMAIN m.de_shares : m.de_shares[j] = de_shares[j][i]

\* C11: Share isolation: every message the coordinator has sent to party i (in
\* flight, or held by the party as its inputs) carries only the index-i element of
\* the x, y, a, b, c share vectors and of the cross-term shares, never the element
\* of another position.
C11_ShareIsolation ==
  \A i \in Parties :
     /\ \A k \in DOMAIN down[i] :
          IF "x_vec" \in DOMAIN down[i][k]
          THEN OwnSlice(i, down[i][k])
          ELSE OwnPublic(i, down[i][k])
     /\ party[i].data # <<>> => OwnSlice(i, party[i].data)
C11_Witness ==
  /\ pc = "recv_results" /\ SHARE_TYPE = "additive" /\ NUM_PARTIES = 3
  /\ down[1] # <<>> /\ party[1].data # <<>>
  /\ x_shares[1][1] # x_shares[1][2] /\ c_shares[1][1] # c_shares[1][3]
  /\ de_shares[1][1] # de_shares[1][2]

\* how many reports with field f party i has sent: those waiting on its
\* connection and the one the coordinator has read into `received`
Sent(i, f, received) ==
  Cardinality({k \in DOMAIN up[i] : f \in DOMAIN up[i][k]})
    + (IF i <= Len(received) THEN 1 ELSE 0)
\* the coordinator has sent the public broadcast
PublicsSent ==
  \/ pc \in {"recv_results", "reconstruct", "keepalive"}
  \/ d_vec # <<>>
  \/ \E i \in Parties : \E k \in DOMAIN down[i] : "d_vec" \in DOMAIN down[i][k]
\* the coordinator has reconstructed a product or the dot product
Reconstructed == products # <<>> \/ printed # <<>> \/ pc = "keepalive"

\* C12: Phase barrier ordering: the public broadcast is sent only after exactly
\* one mask report of each of the N parties has been received, products and dot
\* are reconstructed only after exactly one result report of each party has been
\* received, a party sends its mask report only after it received its inputs and
\* its result report only after it received the broadcast.
C12_PhaseBarrier ==
  /\ PublicsSent =>
       /\ Len(responses) = NUM_PARTIES
       /\ \A i \in Parties :
            /\ responses[i] = MaskReport(party[i].data)
            /\ Sent(i, "d", responses) = 1
  /\ Reconstructed =>
       /\ Len(result_shares) = NUM_PARTIES
       /\ \A i \in Parties :
            /\ "products" \in DOMAIN result_shares[i]
            /\ Sent(i, "products", result_shares) = 1
  /\ \A i \in Parties :
       /\ Sent(i, "d", responses) <= 1
       /\ Sent(i, "products", result_shares) <= 1
       /\ Sent(i, "d", responses) = 1 =>
            (party[i].data # <<>> /\ party[i].pc \in {"recv_publics", "finished"}
             /\ pc # "accept")
       /\ Sent(i, "products", result_shares) = 1 =>
            (party[i].pc = "finished" /\ PublicsSent /\ Sent(i, "d", responses) = 1)
C12_Witness ==
  /\ NUM_PARTIES = 3 /\ pc = "recv_results" /\ result_shares = <<>>
  /\ party[3].pc = "finished" /\ party[1].pc = "recv_publics"
  /\ Sent(3, "products", result_shares) = 1 /\ Sent(1, "products", result_shares) = 0

\* C13: Cross-term re-sharing in both schemes: once the broadcast is sent, for
\* every index j the coordinator holds N shares of de_j whose Field-sum is
\* mul(d_j, e_j), and the broadcast to party i carries party i's share of de_j.
C13_CrossTermShared ==
  (pc \in {"recv_results", "reconstruct", "keepalive"}) =>
     /\ \A j \in Idx :
          /\ Len(de_shares[j]) = NUM_PARTIES
          /\ FieldSum(de_shares[j]) = FieldMul(d_vec[j], e_vec[j])
     /\ \A i \in Parties : \A k \in DOMAIN down[i] :
          "de_shares" \in DOMAIN down[i][k] =>
             /\ Len(down[i][k].de_shares) = Len(x_vec)
             /\ \A j \in Idx : down[i][k].de_shares[j] = de_shares[j][i]

\* the Field's subtraction
FieldSub(a, b) == (a - b) % FieldOrder

\* C14: Public reconstruction of masks: once all N mask reports are aggregated,
\* for every index j the public d_j is sub(x_j, a_j) and e_j is sub(y_j, b_j) for
\* the true inputs and the dealer's clear a_j, b_j, and every party is sent the
\* same d and e vectors.
C14_PublicMasks ==
  (d_vec # <<>> \/ e_vec # <<>>) =>
     /\ Len(d_vec) = Len(x_vec) /\ Len(e_vec) = Len(x_vec)
     /\ \A j \in Idx :
          /\ d_vec[j] = FieldSub(x_vec[j], abc[j].a)
          /\ e_vec[j] = FieldSub(y_vec[j], abc[j].b)
     /\ \A i \in Parties : \A k \in DOMAIN down[i] :
          "d_vec" \in DOMAIN down[i][k] =>
             (down[i][k].d_vec = d_vec /\ down[i][k].e_vec = e_vec)
C14_Witness ==
  /\ pc = "recv_results" /\ SHARE_TYPE = "additive" /\ MODULUS = 3
  /\ x_vec[1] = 1 /\ abc[1].a = 2 /\ d_vec[1] = 2
  /\ y_vec[1] = 2 /\ abc[1].b = 2 /\ e_vec[1] = 0
  /\ x_shares[1][1] = 2 /\ a_shares[1][1] = 1
  /\ \A i \in Parties : down[i] # <<>>

\* What party i sees in the run of coordinator.py:70-117 on inputs xv, yv when
\* the share draws come out as xr, yr, the triples' draws as t and the cross
\* terms' draws as der: its input payload and the broadcast it receives.
RunView(i, xv, yv, xr, yr, t, der) ==
  LET xs == [j \in Idx |-> share_secret(xv[j], xr[j])]
      ys == [j \in Idx |-> share_secret(yv[j], yr[j])]
      g == generate_beaver_triples(Len(xv), t)
      rs == [k \in Parties |-> MaskReport(InputData(k, xs, ys, g))]
      d == Aggregate(rs, "d")
      e == Aggregate(rs, "e")
      de == IF SHARE_TYPE = "additive"
            THEN [j \in Idx |-> share_secret((d[j] * e[j]) % MODULUS, der[j])]
            ELSE [j \in Idx |-> <<>>]
  IN [data |-> InputData(i, xs, ys, g), msg |-> PublicMsg(i, d, e, de)]

\* Some random draws make the run on inputs xv, yv show party i the view v.
\* The draws are searched call by call, discarding at each call those that
\* already disagree with v.
CanObserve(i, xv, yv, v) ==
  \E xr \in [Idx -> Draws(RandRange)] :
    /\ \A j \in Idx : share_secret(xv[j], xr[j])[i] = v.data.x_vec[j]
    /\ \E yr \in [Idx -> Draws(RandRange)] :
        /\ \A j \in Idx : share_secret(yv[j], yr[j])[i] = v.data.y_vec[j]
        /\ \E a \in [Idx -> RandRange], ar \in [Idx -> Draws(RandRange)] :
            /\ \A j \in Idx : share_secret(a[j], ar[j])[i] = v.data.beavers[j].a
            /\ Aggregate([k \in Parties |->
                  [d |-> [j \in Idx |-> Mask(SHARE_TYPE, MODULUS,
                             share_secret(xv[j], xr[j])[k],
                             share_secret(a[j], ar[j])[k])]]], "d") = v.msg.d_vec
            /\ \E b \in [Idx -> RandRange], br \in [Idx -> Draws(RandRange)] :
                /\ \A j \in Idx : share_secret(b[j], br[j])[i] = v.data.beavers[j].b
                /\ Aggregate([k \in Parties |->
                      [e |-> [j \in Idx |-> Mask(SHARE_TYPE, MODULUS,
                                 share_secret(yv[j], yr[j])[k],
                                 share_secret(b[j], br[j])[k])]]], "e") = v.msg.e_vec
                /\ \E cr \in [Idx -> Draws(RandRange)] :
                    LET t == [a |-> a, b |-> b, ar |-> ar, br |-> br, cr |-> cr]
                    IN /\ t \in TripleRand(Len(xv), RandRange, RandRange)
                       /\ \A j \in Idx :
                            generate_beaver_triples(Len(xv), t).c_list[j][i]
                              = v.data.beavers[j].c
                       /\ \E der \in [Idx -> Draws(RandRange)] :
                            RunView(i, xv, yv, xr, yr, t, der) = v

\* every party holds its inputs and has the broadcast waiting: its view is whole
ViewsComplete ==
  /\ pc = "recv_results"
  /\ \A k \in Parties : party[k].pc = "recv_publics" /\ down[k] # <<>>
\* the view of party i at that point
ViewOf(i) == [data |-> party[i].data, msg |-> Head(down[i])]

\* C15: Single-party view hides the inputs: the view a party observes in a run
\* (its x, y, a, b, c shares, the public d and e, its cross-term share) can be
\* observed by it on every other in-domain input pair as well, and every public
\* (d, e) can occur on the run's inputs.
C15_ViewHidesInputs ==
  /\ ViewsComplete =>
       \A i \in Parties :
          \A xv \in [Idx -> Domain], yv \in [Idx -> Domain] :
             CanObserve(i, xv, yv, ViewOf(i))
  /\ (pc = "accept" /\ Len(clients) = NUM_PARTIES) =>
       \A dv \in [Idx -> Domain], ev \in [Idx -> Domain] :
          \E a \in [Idx -> RandRange], b \in [Idx -> RandRange] :
             LET zero == [j \in Idx |-> [k \in 1..(NUM_PARTIES - 1) |-> 0]]
                 t == [a |-> a, b |-> b, ar |-> zero, br |-> zero, cr |-> zero]
                 w == RunView(1, x_vec, y_vec, zero, zero, t, zero)
             IN w.msg.d_vec = dv /\ w.msg.e_vec = ev
C15_Witness ==
  /\ ViewsComplete /\ NUM_PARTIES = 3 /\ SHARE_TYPE = "additive"
  /\ x_vec[1] = 1 /\ y_vec[1] = 0
  /\ ViewOf(2).data.x_vec[1] = 1 /\ ViewOf(2).msg.d_vec[1] = 1
  /\ ViewOf(2).msg.de_shares[1] = 1
  /\ CanObserve(2, <<0>>, <<1>>, ViewOf(2))

\* party i's shares of triple j, as the dealer produced them
TripleShare(i, j) == [a |-> a_shares[j][i], b |-> b_shares[j][i], c |-> c_shares[j][i]]
\* what party i's inputs are when every index j comes with the shares of triple j
WithOwnTriples(i) ==
  [x_vec |-> [j \in Idx |-> x_shares[j][i]],
   y_vec |-> [j \in Idx |-> y_shares[j][i]],
   beavers |-> [j \in Idx |-> TripleShare(i, j)],
   type |-> SHARE_TYPE, mod |-> MODULUS, compute_dot |-> TRUE]
\* the clear triples one generate_beaver_triples(n) call can return
ClearTriples(n) ==
  {generate_beaver_triples(n, t).clear : t \in TripleRand(n, RandRange, {0})}

\* C16: Triples are single-use: the dealer generates one triple per index, any
\* combination of per-index (a, b) being possible; every party masks and
\* finalizes index j with its shares of triple j, so no triple serves two indices.
C16_TriplesSingleUse ==
  /\ (pc = "accept" /\ Len(clients) = NUM_PARTIES) =>
       ClearTriples(Len(x_vec)) =
         [Idx -> {[a |-> a, b |-> b, c |-> FieldMul(a, b)] : a \in Domain, b \in Domain}]
  /\ (pc \in {"recv_masks", "publics", "recv_results", "reconstruct", "keepalive"}) =>
       /\ Len(abc) = Len(x_vec)
       /\ Len(a_shares) = Len(x_vec) /\ Len(b_shares) = Len(x_vec)
       /\ Len(c_shares) = Len(x_vec)
  /\ \A i \in Parties :
       /\ party[i].data # <<>> =>
            \A j \in Idx : party[i].data.beavers[j] = TripleShare(i, j)
       /\ i \in DOMAIN responses =>
            \A j \in Idx :
               /\ responses[i].d[j] =
                    Mask(SHARE_TYPE, MODULUS, x_shares[j][i], TripleShare(i, j).a)
               /\ responses[i].e[j] =
                    Mask(SHARE_TYPE, MODULUS, y_shares[j][i], TripleShare(i, j).b)
       /\ i \in DOMAIN result_shares =>
            \A j \in Idx :
               result_shares[i].products[j] =
                 Term(WithOwnTriples(i), PublicMsg(i, d_vec, e_vec, de_shares), j)
C16_Witness ==
  /\ pc = "keepalive" /\ Len(x_vec) = 3 /\ NUM_PARTIES = 3
  /\ abc[1] # abc[2] /\ abc[2] # abc[3] /\ abc[1] # abc[3]
  /\ TripleShare(3, 1) # TripleShare(3, 2)
  /\ result_shares[3].products[1] # result_shares[3].products[2]

\* the coordinator has not read a mask report or a result report of party i
Undelivered(i) == i \notin DOMAIN responses \/ i \notin DOMAIN result_shares
\* party i will never send the report it still owes
NeverDelivers(i) == i \in silent /\ party[i].pc \in {"recv_inputs", "recv_publics"}

\* C17: No partial exposure: while a party's mask report or result report has
\* not been delivered, and in every run where a party never delivers one, the
\* coordinator has printed nothing and holds no product or dot value, whatever
\* reports of the other parties did arrive.
C17_NoPartialExposure ==
  (\E i \in Parties : Undelivered(i) \/ NeverDelivers(i)) =>
     /\ printed = <<>>
     /\ products = <<>>
     /\ pc # "keepalive"
     /\ outcome # "done"
C17_Witness ==
  /\ NUM_PARTIES = 3 /\ NeverDelivers(2) /\ party[2].pc = "recv_publics"
  /\ pc = "recv_results" /\ Len(result_shares) = 1 /\ up[3] # <<>>
  /\ printed = <<>>

\* every connection is closed: no handle_client thread is left inside `with conn:`
Released == handlers = {}
\* the coordinator's main thread has no further step
Stopped == ~ENABLED KeepAlive

\* C18: Teardown after completion: once the coordinator has exposed the results
\* it eventually reaches a terminal state in which all N party channels are
\* released and the coordinator and its per-party tasks take no more steps.
C18_Teardown == Exposed ~> (Released /\ Stopped)

\* C19: XOR result characterisation: in the XOR scheme, for every index j and
\* every dealer randomness, d_j = x_j XOR a_j, e_j = y_j XOR b_j and the
\* reconstructed product is mul(x_j, y_j) XOR mul(d_j, e_j); it is the correct
\* product exactly when d_j AND e_j is 0.
C19_XorResult ==
  (Exposed /\ SHARE_TYPE = "xor") =>
     \A j \in Idx :
        /\ d_vec[j] = BitXor(x_vec[j], abc[j].a)
        /\ e_vec[j] = BitXor(y_vec[j], abc[j].b)
        /\ products[j] = BitXor(BitAnd(x_vec[j], y_vec[j]), BitAnd(d_vec[j], e_vec[j]))
        /\ (products[j] = BitAnd(x_vec[j], y_vec[j])) <=> (BitAnd(d_vec[j], e_vec[j]) = 0)
C19_Witness ==
  /\ Exposed /\ SHARE_TYPE = "xor" /\ NUM_PARTIES = 3
  /\ x_vec[1] = 1 /\ y_vec[1] = 1 /\ abc[1].a = 0 /\ abc[1].b = 0
  /\ d_vec[1] = 1 /\ e_vec[1] = 1 /\ products[1] = 0
  /\ a_shares[1][1] = 1 /\ c_shares[1][2] = 1

====
